---- MODULE Spec2Model ----
(***************************************************************************)
(* Model of csv_convert.py: the field resolvers (vendor number, invoice    *)
(* number, financial details), the record assembler, the deduplicator and  *)
(* the Munis CSV serializer, driven by main().                             *)
(*                                                                         *)
(* Strings are sequences of one-character strings, so that the regular     *)
(* expressions, zfill, splitext, float parsing and "%.2f" formatting are   *)
(* computed character by character as the code computes them.              *)
(*                                                                         *)
(* dict.get(k) of an absent key (None) and an empty string are both falsy  *)
(* and the code only ever tests them for truth, so both are the empty      *)
(* sequence here.                                                          *)
(***************************************************************************)
EXTENDS Integers, Sequences, FiniteSets, TLC

VARIABLES
    pc,           \* position of the run
    eml_files,    \* main: the sorted list of .eml paths found by os.walk
    next_eml,     \* main: index of the next .eml file of the scan loop
    msgs,         \* the MIME parts of every message scanned so far (history)
    records,      \* main: the accumulated candidate records
    unique,       \* main: the deduplicated records
    out_file,     \* the rows written to the output target; <<>> while unopened
    exit_msg,     \* the message sys.exit was called with; <<>> while running
    args,         \* main: the parsed command line
    text,         \* one document: the extracted text
    source_file,  \* one document: the path handed to the resolvers
    donut_json,   \* one document: the structured-model mapping
    pdf,          \* one document: what pdfplumber makes of the bytes
    details,      \* extract_financial_details: its local dict
    result        \* one document: what the resolver / assembler returned

mainVars ==
    <<eml_files, next_eml, msgs, records, unique, out_file, exit_msg, args>>

docVars == <<text, source_file, donut_json, pdf>>

vars == <<pc, mainVars, docVars, details, result>>

(***************************************************************************)
(* Characters                                                              *)
(***************************************************************************)
Digits == {"0", "1", "2", "3", "4", "5", "6", "7", "8", "9"}

UpperSeq == <<"A","B","C","D","E","F","G","H","I","J","K","L","M",
              "N","O","P","Q","R","S","T","U","V","W","X","Y","Z">>

LowerSeq == <<"a","b","c","d","e","f","g","h","i","j","k","l","m",
              "n","o","p","q","r","s","t","u","v","w","x","y","z">>

Upper == {UpperSeq[i] : i \in 1..Len(UpperSeq)}

Lower == {LowerSeq[i] : i \in 1..Len(LowerSeq)}

\* \s
Whitespace == {" ", "\t", "\n"}

\* \w
IsWord(c) == c \in Digits \cup Upper \cup Lower \cup {"_"}

\* re.IGNORECASE compares case-folded characters
ToLower(c) ==
    IF c \in Upper
    THEN LowerSeq[CHOOSE i \in 1..Len(UpperSeq) : UpperSeq[i] = c]
    ELSE c

DigitSeq == <<"0", "1", "2", "3", "4", "5", "6", "7", "8", "9">>

DigitVal(c) == (CHOOSE i \in 1..10 : DigitSeq[i] = c) - 1

(***************************************************************************)
(* Regular-expression building blocks.  Positions are 1-based; a position  *)
(* Len(s) + 1 is the end of the string.                                    *)
(***************************************************************************)
Slice(s, i, j) == IF j < i THEN <<>> ELSE SubSeq(s, i, j)

\* the literal lit matches s at position i
LitAt(s, i, lit, ignorecase) ==
    /\ i + Len(lit) - 1 <= Len(s)
    /\ \A k \in 1..Len(lit) :
          IF ignorecase THEN ToLower(s[i + k - 1]) = ToLower(lit[k])
                        ELSE s[i + k - 1] = lit[k]

\* greedy X*: the first position at or after i whose character is not in class
RECURSIVE SkipClass(_, _, _)
SkipClass(s, i, class) ==
    IF i <= Len(s) /\ s[i] \in class THEN SkipClass(s, i + 1, class) ELSE i

\* \b at position i (between s[i-1] and s[i])
WordBoundary(s, i) ==
    (i > 1 /\ IsWord(s[i - 1])) # (i <= Len(s) /\ IsWord(s[i]))

NoMatch == [ok |-> FALSE, cap |-> <<>>, end |-> 0]

Match(cap, end) == [ok |-> TRUE, cap |-> cap, end |-> end]

\* dict.get(key): the value, or a falsy value when the key is absent
Get(d, key) == IF key \in DOMAIN d THEN d[key] ELSE <<>>

Truthy(v) == v # <<>>

EmptyDict == [k \in {} |-> <<>>]

(***************************************************************************)
(* os.path                                                                 *)
(***************************************************************************)
RECURSIVE LastIndexOf(_, _, _)
\* str.rfind(c) within s[1..i]; 0 when absent
LastIndexOf(s, c, i) ==
    IF i = 0 THEN 0
    ELSE IF s[i] = c THEN i ELSE LastIndexOf(s, c, i - 1)

\* os.path.basename (posixpath): what follows the last "/"
basename(p) == Slice(p, LastIndexOf(p, "/", Len(p)) + 1, Len(p))

\* os.path.splitext(p)[0] with every leading dot taken for an extension dot
\* (what a naive "cut at the last dot" does)
splitext_root_naive(p) ==
    LET dot == LastIndexOf(p, ".", Len(p))
    IN  IF dot > 0 THEN Slice(p, 1, dot - 1) ELSE p

\* os.path.splitext(p)[0] (genericpath._splitext): the extension starts at the
\* last dot, provided a character other than "." precedes it in the base name
splitext_root(p) ==
    LET sep == LastIndexOf(p, "/", Len(p))
        dot == LastIndexOf(p, ".", Len(p))
    IN  IF dot > sep /\ \E k \in (sep + 1)..(dot - 1) : p[k] # "."
        THEN Slice(p, 1, dot - 1)
        ELSE p

\* line 92 / line 104
filename_fallback(source_file_) == splitext_root(basename(source_file_))

\* str.zfill(width)
RECURSIVE zfill(_, _)
zfill(s, width) == IF Len(s) >= width THEN s ELSE zfill(<<"0">> \o s, width)

(***************************************************************************)
(* extract_vendor_number                                                   *)
(***************************************************************************)
S_vendor == <<"v", "e", "n", "d", "o", "r">>

S_acct == <<"a", "c", "c", "t">>

S_ount == <<"o", "u", "n", "t">>

S_number == <<"n", "u", "m", "b", "e", "r">>

\* \s*(?:#|number)[:\s]*([0-9]{6,8}) anchored at i.  Every repetition is
\* followed by a character outside its class, so the greedy match is the only
\* candidate: no backtracking changes the outcome.
VendorTailAt(s, i) ==
    LET a == SkipClass(s, i, Whitespace)
        b == IF LitAt(s, a, <<"#">>, TRUE) THEN a + 1
             ELSE IF LitAt(s, a, S_number, TRUE) THEN a + 6
             ELSE 0
        c == SkipClass(s, b, {":"} \cup Whitespace)
        n == SkipClass(s, c, Digits) - c
        take == IF n > 8 THEN 8 ELSE n
    IN  IF b = 0 \/ n < 6 THEN NoMatch
        ELSE Match(Slice(s, c, c + take - 1), c + take)

\* (?:vendor|acct(?:ount)?) followed by the tail, anchored at i, IGNORECASE
VendorLabelAt(s, i) ==
    IF LitAt(s, i, S_vendor, TRUE) THEN VendorTailAt(s, i + 6)
    ELSE IF LitAt(s, i, S_acct, TRUE)
    THEN IF LitAt(s, i + 4, S_ount, TRUE) /\ VendorTailAt(s, i + 8).ok
         THEN VendorTailAt(s, i + 8)
         ELSE VendorTailAt(s, i + 4)
    ELSE NoMatch

\* re.search of the label pattern: the leftmost match
RECURSIVE VendorLabelSearch(_, _)
VendorLabelSearch(s, i) ==
    IF i > Len(s) THEN NoMatch
    ELSE LET m == VendorLabelAt(s, i)
         IN  IF m.ok THEN m ELSE VendorLabelSearch(s, i + 1)

\* \b\d{8}\b anchored at i
EightDigitAt(s, i) ==
    IF /\ i + 7 <= Len(s)
       /\ \A k \in i..(i + 7) : s[k] \in Digits
       /\ WordBoundary(s, i)
       /\ WordBoundary(s, i + 8)
    THEN Match(Slice(s, i, i + 7), i + 8)
    ELSE NoMatch

\* re.findall(r"\b\d{8}\b", text)[0] when the list is not empty
RECURSIVE EightDigitSearch(_, _)
EightDigitSearch(s, i) ==
    IF i > Len(s) THEN NoMatch
    ELSE LET m == EightDigitAt(s, i)
         IN  IF m.ok THEN m ELSE EightDigitSearch(s, i + 1)

\* the chain with steps 2 and 3 exchanged
extract_vendor_number_swapped(text_, source_file_, donut_json_) ==
    LET v  == Get(donut_json_, "vendor_number")
        m  == VendorLabelSearch(text_, 1)
        fb == EightDigitSearch(text_, 1)
    IN  IF Truthy(v) THEN v
        ELSE IF fb.ok THEN fb.cap
        ELSE IF m.ok THEN zfill(m.cap, 8)
        ELSE filename_fallback(source_file_)

extract_vendor_number(text_, source_file_, donut_json_) ==
    LET v  == Get(donut_json_, "vendor_number")
        m  == VendorLabelSearch(text_, 1)
        fb == EightDigitSearch(text_, 1)
    IN  IF Truthy(v) THEN v
        ELSE IF m.ok THEN zfill(m.cap, 8)
        ELSE IF fb.ok THEN fb.cap
        ELSE filename_fallback(source_file_)

(***************************************************************************)
(* extract_invoice_number                                                  *)
(***************************************************************************)
S_invoice == <<"i", "n", "v", "o", "i", "c", "e">>

S_no == <<"n", "o">>

\* [A-Z0-9\-/] under IGNORECASE
InvoiceChars == Upper \cup Lower \cup Digits \cup {"-", "/"}

\* ([A-Z0-9\-/]{4,20}) anchored at i
InvoiceTokenAt(s, i) ==
    LET n    == SkipClass(s, i, InvoiceChars) - i
        take == IF n > 20 THEN 20 ELSE n
    IN  IF n < 4 THEN NoMatch ELSE Match(Slice(s, i, i + take - 1), i + take)

\* \s*[:\-]?\s*([A-Z0-9\-/]{4,20}) anchored at i.  "-" is also a token
\* character: when the token after a consumed "-" is too short, the matcher
\* backtracks and lets the token start at the "-".
InvoiceTailAt(s, i) ==
    LET a == SkipClass(s, i, Whitespace)
        b == IF a <= Len(s) /\ s[a] \in {":", "-"} THEN a + 1 ELSE a
        c == SkipClass(s, b, Whitespace)
    IN  IF InvoiceTokenAt(s, c).ok THEN InvoiceTokenAt(s, c)
        ELSE InvoiceTokenAt(s, a)

\* invoice\s*(?:no\.?|#|number) followed by the tail, anchored at i
InvoiceLabelAt(s, i) ==
    LET a == SkipClass(s, i + 7, Whitespace)
    IN  IF ~LitAt(s, i, S_invoice, TRUE) THEN NoMatch
        ELSE IF LitAt(s, a, S_no, TRUE)
        THEN IF a + 2 <= Len(s) /\ s[a + 2] = "."
             THEN InvoiceTailAt(s, a + 3)
             ELSE InvoiceTailAt(s, a + 2)
        ELSE IF LitAt(s, a, <<"#">>, TRUE) THEN InvoiceTailAt(s, a + 1)
        ELSE IF LitAt(s, a, S_number, TRUE) THEN InvoiceTailAt(s, a + 6)
        ELSE NoMatch

RECURSIVE InvoiceLabelSearch(_, _)
InvoiceLabelSearch(s, i) ==
    IF i > Len(s) THEN NoMatch
    ELSE LET m == InvoiceLabelAt(s, i)
         IN  IF m.ok THEN m ELSE InvoiceLabelSearch(s, i + 1)

\* \d{1,2}/ anchored at i: the position after the "/", 0 when no match
DayPartEnd(s, i) ==
    IF i = 0 \/ i + 1 > Len(s) \/ s[i] \notin Digits THEN 0
    ELSE IF s[i + 1] = "/" THEN i + 2
    ELSE IF i + 2 <= Len(s) /\ s[i + 1] \in Digits /\ s[i + 2] = "/" THEN i + 3
    ELSE 0

\* \d{1,2}/\d{1,2}/\d{2,4}\s+([A-Z0-9\-]{5,}) anchored at i, case-sensitive.
\* The year is followed by whitespace, so it is the whole digit run.
DatedTokenAt(s, i) ==
    LET y == DayPartEnd(s, DayPartEnd(s, i))
        n == SkipClass(s, y, Digits) - y
        w == SkipClass(s, y + n, Whitespace)
        e == SkipClass(s, w, Upper \cup Digits \cup {"-"})
    IN  IF y = 0 \/ n < 2 \/ n > 4 \/ w = y + n \/ e - w < 5 THEN NoMatch
        ELSE Match(Slice(s, w, e - 1), e)

RECURSIVE DatedTokenSearch(_, _)
DatedTokenSearch(s, i) ==
    IF i > Len(s) THEN NoMatch
    ELSE LET m == DatedTokenAt(s, i)
         IN  IF m.ok THEN m ELSE DatedTokenSearch(s, i + 1)

\* \b[0-9]{2}[A-Z]{3}[0-9]{6,}\b anchored at i.  After the digit run only a
\* non-word character gives \b, so the run is taken whole.
PatternTokenAt(s, i) ==
    LET e == SkipClass(s, i + 5, Digits)
    IN  IF /\ i + 10 <= Len(s)
           /\ WordBoundary(s, i)
           /\ s[i] \in Digits /\ s[i + 1] \in Digits
           /\ s[i + 2] \in Upper /\ s[i + 3] \in Upper /\ s[i + 4] \in Upper
           /\ e - (i + 5) >= 6
           /\ WordBoundary(s, e)
        THEN Match(Slice(s, i, e - 1), e)
        ELSE NoMatch

RECURSIVE PatternTokenSearch(_, _)
PatternTokenSearch(s, i) ==
    IF i > Len(s) THEN NoMatch
    ELSE LET m == PatternTokenAt(s, i)
         IN  IF m.ok THEN m ELSE PatternTokenSearch(s, i + 1)

\* line 95: get("invoice_number") or get("invoice_id") or get("invoice_no")
StructuredInvoiceNumber(donut_json_) ==
    IF Truthy(Get(donut_json_, "invoice_number"))
    THEN Get(donut_json_, "invoice_number")
    ELSE IF Truthy(Get(donut_json_, "invoice_id"))
    THEN Get(donut_json_, "invoice_id")
    ELSE Get(donut_json_, "invoice_no")

extract_invoice_number(text_, source_file_, donut_json_) ==
    LET v  == StructuredInvoiceNumber(donut_json_)
        m  == InvoiceLabelSearch(text_, 1)
        m2 == DatedTokenSearch(text_, 1)
        fb == PatternTokenSearch(text_, 1)
    IN  IF Truthy(v) THEN v
        ELSE IF m.ok THEN m.cap
        ELSE IF m2.ok THEN m2.cap
        ELSE IF fb.ok THEN fb.cap
        ELSE filename_fallback(source_file_)

(***************************************************************************)
(* extract_financial_details                                               *)
(***************************************************************************)
S_USD == <<"U", "S", "D">>

S_USdollar == <<"U", "S", "$">>

\* (?:USD|US\$|\$|£|€) anchored at i: the position after it, 0 when no match
CurrencyEnd(s, i) ==
    IF LitAt(s, i, S_USD, FALSE) \/ LitAt(s, i, S_USdollar, FALSE) THEN i + 3
    ELSE IF i <= Len(s) /\ s[i] \in {"$", "£", "€"} THEN i + 1
    ELSE 0

\* [\d,]+\.\d{2} anchored at a: the position after the match, 0 when no match.
\* The repetition is followed by ".", which is outside its class, so only the
\* greedy match can succeed.
DecimalEnd(s, a) ==
    LET b == SkipClass(s, a, Digits \cup {","})
    IN  IF /\ b > a
           /\ b + 2 <= Len(s)
           /\ s[b] = "."
           /\ s[b + 1] \in Digits
           /\ s[b + 2] \in Digits
        THEN b + 3
        ELSE 0

\* amt_re anchored at i: (?<!\d)(?:USD|US\$|\$|£|€)\s*([\d,]+(?:\.\d{2}))
AmountAt(s, i) ==
    LET cur == CurrencyEnd(s, i)
        a   == SkipClass(s, cur, Whitespace)
        e   == DecimalEnd(s, a)
    IN  IF (i > 1 /\ s[i - 1] \in Digits) \/ cur = 0 \/ e = 0 THEN NoMatch
        ELSE Match(Slice(s, a, e - 1), e)

\* re.findall(amt_re, text): the captures of the non-overlapping matches, left
\* to right
RECURSIVE FindAmounts(_, _)
FindAmounts(s, i) ==
    IF i > Len(s) THEN <<>>
    ELSE LET m == AmountAt(s, i)
         IN  IF m.ok THEN <<m.cap>> \o FindAmounts(s, m.end)
             ELSE FindAmounts(s, i + 1)

\* str.replace(",", "")
RECURSIVE RemoveCommas(_)
RemoveCommas(s) ==
    IF s = <<>> THEN <<>>
    ELSE IF Head(s) = "," THEN RemoveCommas(Tail(s))
    ELSE <<Head(s)>> \o RemoveCommas(Tail(s))

\* the value of a digit string; 0 for the empty string
RECURSIVE DigitsValue(_)
DigitsValue(s) ==
    IF s = <<>> THEN 0
    ELSE 10 * DigitsValue(SubSeq(s, 1, Len(s) - 1)) + DigitVal(s[Len(s)])

\* float(a.replace(",", "")) of a capture "<digits and commas>.dd", as a number
\* of hundredths.  (A float holds these exactly enough for "%.2f" to print the
\* same hundredths up to about 10^13; the model's amounts are far below.)
ToCents(a) ==
    LET d == RemoveCommas(a)
    IN  100 * DigitsValue(SubSeq(d, 1, Len(d) - 3))
            + DigitsValue(SubSeq(d, Len(d) - 1, Len(d)))

RECURSIVE NatToStr(_)
NatToStr(n) ==
    IF n < 10 THEN <<DigitSeq[n + 1]>>
    ELSE NatToStr(n \div 10) \o <<DigitSeq[(n % 10) + 1]>>

\* f"{x:.2f}" of a number of hundredths
FormatCents(n) ==
    NatToStr(n \div 100) \o <<".">>
        \o <<DigitSeq[((n \div 10) % 10) + 1], DigitSeq[(n % 10) + 1]>>

\* [float(a.replace(",", "")) for a in re.findall(amt_re, text)]
Nums(text_) ==
    LET found == FindAmounts(text_, 1)
    IN  [k \in 1..Len(found) |-> ToCents(found[k])]

\* max(nums)
RECURSIVE MaxOf(_)
MaxOf(nums) ==
    IF Len(nums) = 1 THEN nums[1]
    ELSE LET m == MaxOf(Tail(nums))
         IN  IF nums[1] >= m THEN nums[1] ELSE m

RECURSIVE InsertDesc(_, _)
InsertDesc(x, sorted) ==
    IF sorted = <<>> THEN <<x>>
    ELSE IF x >= Head(sorted) THEN <<x>> \o sorted
    ELSE <<Head(sorted)>> \o InsertDesc(x, Tail(sorted))

\* sorted(nums, reverse=True)
RECURSIVE SortedDesc(_)
SortedDesc(nums) ==
    IF nums = <<>> THEN <<>>
    ELSE InsertDesc(Head(nums), SortedDesc(Tail(nums)))

\* lines 109-112: the structured fields, copied as they are
StructuredDetails(donut_json_) ==
    LET jt == Get(donut_json_, "invoice_total")
        jn == Get(donut_json_, "invoice_net_amount")
    IN  (IF Truthy(jt) THEN "invoice_total" :> jt ELSE EmptyDict)
        @@ (IF Truthy(jn) THEN "invoice_net_amount" :> jn ELSE EmptyDict)

\* lines 120-125 with the net amount taken from the largest candidate
NetFromText_max(nums) ==
    IF Len(nums) > 1 THEN "invoice_net_amount" :> FormatCents(MaxOf(nums))
    ELSE IF Len(nums) > 0 THEN "invoice_net_amount" :> FormatCents(nums[1])
    ELSE EmptyDict

\* lines 122-125
NetFromText(nums) ==
    IF Len(nums) > 1
    THEN "invoice_net_amount" :> FormatCents(SortedDesc(nums)[2])
    ELSE IF Len(nums) > 0 THEN "invoice_net_amount" :> FormatCents(nums[1])
    ELSE EmptyDict

\* lines 114-125: details after the regex fallback
TextDetails(details_, text_) ==
    LET nums == Nums(text_)
        withTotal ==
            IF "invoice_total" \notin DOMAIN details_ /\ Len(nums) > 0
            THEN details_ @@ ("invoice_total" :> FormatCents(MaxOf(nums)))
            ELSE details_
    IN  IF "invoice_net_amount" \notin DOMAIN withTotal
        THEN withTotal @@ NetFromText(nums)
        ELSE withTotal

\* re.match(r"[\d,]+\.\d{2}", last): the pattern matches a prefix of the cell
CellMatches(last) == DecimalEnd(last, 1) # 0

\* lines 131-137 from page i on, the whole loop scanning every page in turn.
\* The result is the accepted cell with its commas removed, or <<>> when the
\* loop ends or raises without one.  tables[0][-1][-1] raises IndexError on a
\* table without rows or a last row without cells; the bare except at line 138
\* swallows it and the scan is over.
RECURSIVE ScanPages(_, _)
ScanPages(pages, i) ==
    IF i > Len(pages) THEN <<>>
    ELSE LET tables == pages[i]
         IN  IF tables = <<>> THEN ScanPages(pages, i + 1)
             ELSE IF tables[1] = <<>> \/ tables[1][Len(tables[1])] = <<>>
             THEN <<>>
             ELSE LET lastRow == tables[1][Len(tables[1])]
                      last    == lastRow[Len(lastRow)]
                  IN  IF Truthy(last) /\ CellMatches(last)
                      THEN RemoveCommas(last)
                      ELSE ScanPages(pages, i + 1)

\* lines 131-137 stopping at the first page that has a table
RECURSIVE ScanPages_first_table(_, _)
ScanPages_first_table(pages, i) ==
    IF i > Len(pages) THEN <<>>
    ELSE LET tables == pages[i]
         IN  IF tables = <<>> THEN ScanPages_first_table(pages, i + 1)
             ELSE IF tables[1] = <<>> \/ tables[1][Len(tables[1])] = <<>>
             THEN <<>>
             ELSE LET lastRow == tables[1][Len(tables[1])]
                      last    == lastRow[Len(lastRow)]
                  IN  IF Truthy(last) /\ CellMatches(last)
                      THEN RemoveCommas(last)
                      ELSE <<>>

\* the page loop giving up once the first table found is rejected
TableScan_first_table(pages) == ScanPages_first_table(pages, 1)

\* the page loop of lines 131-137
TableScan(pages) == ScanPages(pages, 1)

\* lines 127-139: details after the table fallback.  pdfplumber.open raising on
\* the bytes is swallowed by the same bare except.
TableDetails(details_, pdf_) ==
    IF "invoice_total" \in DOMAIN details_ \/ ~pdf_.opens THEN details_
    ELSE LET cell == TableScan(pdf_.pages)
         IN  IF cell # <<>> THEN details_ @@ ("invoice_total" :> cell)
             ELSE details_

extract_financial_details(text_, pdf_, donut_json_) ==
    TableDetails(TextDetails(StructuredDetails(donut_json_), text_), pdf_)

(***************************************************************************)
(* main                                                                    *)
(***************************************************************************)
\* the characters in code-point order, the order list.sort() compares by
CharOrder ==
    <<"\t", "\n", " ", "#", "$", ",", "-", ".", "/">> \o DigitSeq \o <<":">>
        \o UpperSeq \o <<"_">> \o LowerSeq \o <<"£", "€">>

Ord(c) == CHOOSE i \in 1..Len(CharOrder) : CharOrder[i] = c

\* a < b for two strings
RECURSIVE StrLess(_, _)
StrLess(a, b) ==
    IF b = <<>> THEN FALSE
    ELSE IF a = <<>> THEN TRUE
    ELSE IF Head(a) = Head(b) THEN StrLess(Tail(a), Tail(b))
    ELSE Ord(Head(a)) < Ord(Head(b))

\* line 224: the paths in ascending order
RECURSIVE SortPaths(_)
SortPaths(S) ==
    IF S = {} THEN <<>>
    ELSE LET m == CHOOSE x \in S : \A y \in S : x = y \/ StrLess(x, y)
         IN  <<m>> \o SortPaths(S \ {m})

\* the test of line 239 left out
NoRecords_unchecked(records_) == FALSE

\* line 239: "if not records"
NoRecords(records_) == records_ = <<>>

Msg_no_folder == <<"E", "r", "r", "o", "r", ":", " ", "f", "o", "l", "d", "e", "r", " ", "n", "o", "t", " ", "f", "o", "u", "n", "d">>

Msg_no_pdf == <<"N", "o", " ", "P", "D", "F", " ", "a", "t", "t", "a", "c", "h", "m", "e", "n", "t", "s", " ", "f", "o", "u", "n", "d", ".">>

Msg_os_error == <<"O", "S", "E", "r", "r", "o", "r">>

(***************************************************************************)
(* Inputs.  A text is the concatenation of at most MaxPieces pieces.       *)
(***************************************************************************)
MaxPieces == 3

RECURSIVE Concat(_)
Concat(ss) == IF ss = <<>> THEN <<>> ELSE Head(ss) \o Concat(Tail(ss))

TextsOf(pieces) ==
    {Concat(ps) : ps \in UNION {[1..n -> pieces] : n \in 0..MaxPieces}}

VendorPieces ==
    { <<" ", "V", "e", "n", "d", "o", "r", " ", "#", ":", " ">>,
      <<"a", "c", "c", "t">>,
      <<"o", "u", "n", "t">>,
      <<"N", "U", "M", "B", "E", "R">>,
      <<" ">>,
      <<"6", "5", "4", "3", "2", "1">>,
      <<"1", "2", "3", "4", "5", "6", "7", "8">>,
      <<"9">>,
      <<"x">> }

\* paths os.walk can hand to the line-222 filter
Paths ==
    { <<"a", ".", "e", "m", "l">>,
      <<"d", "/", "b", ".", "c", ".", "E", "M", "L">>,
      <<".", "e", "m", "l">>,
      <<"d", ".", "e", "/", ".", ".", "e", "m", "l">>,
      <<"d", "/", "n", "o", "t", "e", ".", "p", "d", "f">>,
      <<"d", "/", "e", "m", "l">> }

S_dot_eml == <<".", "e", "m", "l">>

\* line 222: fn.lower().endswith(".eml")
IsEmlName(p) ==
    Len(p) >= 4 /\ LitAt(p, Len(p) - 3, S_dot_eml, TRUE)

EmlPaths == {p \in Paths : IsEmlName(basename(p))}

VendorDonuts ==
    { EmptyDict,
      [k \in {"vendor_number"} |-> <<>>],
      [k \in {"vendor_number", "invoice_number"} |-> <<"V", "7">>] }

NoPdf == [opens |-> FALSE, pages |-> <<>>]

(***************************************************************************)
(* SpecVendor: the vendor number resolver applied to one document          *)
(***************************************************************************)
Idle ==
    /\ eml_files = <<>>
    /\ next_eml = 1
    /\ msgs = <<>>
    /\ records = <<>>
    /\ unique = <<>>
    /\ out_file = <<>>
    /\ exit_msg = <<>>
    /\ args = EmptyDict

InitVendor ==
    /\ Idle
    /\ pc = "ready"
    /\ text \in TextsOf(VendorPieces)
    /\ source_file \in EmlPaths
    /\ donut_json \in VendorDonuts
    /\ pdf = NoPdf
    /\ details = EmptyDict
    /\ result = <<>>

ResolveVendor ==
    /\ pc = "ready"
    /\ result' = extract_vendor_number(text, source_file, donut_json)
    /\ pc' = "resolved"
    /\ UNCHANGED <<mainVars, docVars, details>>

NextVendor == ResolveVendor

SpecVendor == InitVendor /\ [][NextVendor]_vars

(***************************************************************************)
(* SpecFin: the financial details resolver applied to one document         *)
(***************************************************************************)
MaxPages == 2

AmountPieces ==
    { <<"$", "5", "0", "0", ".", "0", "0", " ">>,
      <<"$", "4", "5", "0", ".", "0", "0">>,
      <<"U", "S", "D", " ", "1", ",", "2", "3", "4", ".", "5", "6">>,
      <<"€", "0", "7", ".", "5">>,
      <<"$">>,
      <<"9">>,
      <<"x">>,
      <<",">>,
      <<".", "5", "0">> }

Val_total == <<"9", "9", ".", "1", "0">>

Val_word == <<"a", "b", "c">>

Val_na == <<"n", "/", "a">>

FinDonuts ==
    { EmptyDict,
      "invoice_total" :> <<>>,
      "invoice_total" :> Val_total,
      "invoice_total" :> Val_word,
      "invoice_net_amount" :> Val_na,
      ("invoice_total" :> Val_total) @@ ("invoice_net_amount" :> Val_na),
      ("invoice_total" :> <<>>) @@ ("invoice_net_amount" :> Val_na) }

\* a table of two rows whose bottom-right cell is cell (<<>>: None)
TableEndingIn(cell) == << <<<<"Q", "t", "y">>, <<"1">>>>, <<<<"T">>, cell>> >>

Cell_good == <<"1", ",", "0", "0", "0", ".", "0", "0">>

Cell_other == <<"3", ".", "5", "0">>

Cell_word == <<"T", "o", "t", "a", "l">>

Cell_long == <<"1", "2", ".", "3", "4", "5">>

\* what extract_tables() returns for one page
PageKinds ==
    { <<>>,
      <<TableEndingIn(Cell_good)>>,
      <<TableEndingIn(Cell_other)>>,
      <<TableEndingIn(Cell_word)>>,
      <<TableEndingIn(Cell_long)>>,
      <<TableEndingIn(<<>>)>>,
      << <<>> >>,
      <<TableEndingIn(Cell_word), TableEndingIn(Cell_other)>> }

Pdfs ==
    {NoPdf} \cup
    {[opens |-> TRUE, pages |-> ps] :
        ps \in UNION {[1..n -> PageKinds] : n \in 0..MaxPages}}

OneTablePdf == [opens |-> TRUE, pages |-> <<<<TableEndingIn(Cell_good)>>>>]

\* every text with two pdfs, and every pdf with three texts
InitFin ==
    /\ Idle
    /\ pc = "ready"
    /\ source_file = <<>>
    /\ donut_json \in FinDonuts
    /\ \/ text \in TextsOf(AmountPieces) /\ pdf \in {NoPdf, OneTablePdf}
       \/ /\ text \in {<<>>, <<"n", "o", "n", "e">>, <<"$", "7", ".", "2", "5">>}
          /\ pdf \in Pdfs
    /\ details = EmptyDict
    /\ result = <<>>

\* lines 107-125
ResolveText ==
    /\ pc = "ready"
    /\ details' = TextDetails(StructuredDetails(donut_json), text)
    /\ pc' = "text_done"
    /\ UNCHANGED <<mainVars, docVars, result>>

\* lines 127-141, and the .get(key, "") of lines 163-164
ResolveTable ==
    /\ pc = "text_done"
    /\ details' = TableDetails(details, pdf)
    /\ result' = [invoice_total      |-> Get(details', "invoice_total"),
                  invoice_net_amount |-> Get(details', "invoice_net_amount")]
    /\ pc' = "resolved"
    /\ UNCHANGED <<mainVars, docVars>>

NextFin == ResolveText \/ ResolveTable

SpecFin == InitFin /\ [][NextFin]_vars

(***************************************************************************)
(* extract_records_from_eml                                                *)
(***************************************************************************)
S_dot_pdf == <<".", "p", "d", "f">>

S_application_pdf == <<"a", "p", "p", "l", "i", "c", "a", "t", "i", "o", "n", "/", "p", "d", "f">>

\* line 151 negated: the part is taken for a PDF
IsPdfPart(part) ==
    \/ part.content_type = S_application_pdf
    \/ Len(part.filename) >= 4
          /\ LitAt(part.filename, Len(part.filename) - 3, S_dot_pdf, TRUE)

\* lines 157-165: the record of one attachment.  The payload stands for the
\* bytes by what the signal providers make of them: the extracted text, the
\* structured mapping and the tables.
AssembleRecord(path, doc) ==
    [vendor_number      |-> extract_vendor_number(doc.text, path, doc.donut_json),
     invoice_number     |-> extract_invoice_number(doc.text, path, doc.donut_json),
     invoice_total      |->
        Get(extract_financial_details(doc.text, doc.pdf, doc.donut_json),
            "invoice_total"),
     invoice_net_amount |->
        Get(extract_financial_details(doc.text, doc.pdf, doc.donut_json),
            "invoice_net_amount")]

\* the loop of lines 148-165 over the parts from part i on
RECURSIVE RecordsFrom(_, _, _)
RecordsFrom(eml_path, msg, i) ==
    IF i > Len(msg) THEN <<>>
    ELSE IF ~IsPdfPart(msg[i]) \/ msg[i].payload = <<>>
    THEN RecordsFrom(eml_path, msg, i + 1)
    ELSE <<AssembleRecord(eml_path, msg[i].payload[1])>>
            \o RecordsFrom(eml_path, msg, i + 1)

\* the same loop handing each attachment's own file name to the resolvers
RECURSIVE RecordsFrom_attachment_name(_, _, _)
RecordsFrom_attachment_name(eml_path, msg, i) ==
    IF i > Len(msg) THEN <<>>
    ELSE IF ~IsPdfPart(msg[i]) \/ msg[i].payload = <<>>
    THEN RecordsFrom_attachment_name(eml_path, msg, i + 1)
    ELSE <<AssembleRecord(msg[i].filename, msg[i].payload[1])>>
            \o RecordsFrom_attachment_name(eml_path, msg, i + 1)

extract_records_from_eml_attachment_name(eml_path, msg) ==
    RecordsFrom_attachment_name(eml_path, msg, 1)

extract_records_from_eml(eml_path, msg) == RecordsFrom(eml_path, msg, 1)

(***************************************************************************)
(* main: the deduplicator, lines 242-247                                   *)
(***************************************************************************)
KeyOf(rec) == <<rec.vendor_number, rec.invoice_number>>

\* the loop over records from record i on, with the set seen and the list
\* unique built so far
RECURSIVE DedupLoop(_, _, _, _)
DedupLoop(records_, i, seen, unique_) ==
    IF i > Len(records_) THEN unique_
    ELSE IF KeyOf(records_[i]) \notin seen
    THEN DedupLoop(records_, i + 1, seen \cup {KeyOf(records_[i])},
                   Append(unique_, records_[i]))
    ELSE DedupLoop(records_, i + 1, seen, unique_)

\* the loop with a later record replacing the retained one of its key
RECURSIVE DedupLoop_last_wins(_, _, _, _)
DedupLoop_last_wins(records_, i, seen, unique_) ==
    IF i > Len(records_) THEN unique_
    ELSE IF KeyOf(records_[i]) \notin seen
    THEN DedupLoop_last_wins(records_, i + 1, seen \cup {KeyOf(records_[i])},
                             Append(unique_, records_[i]))
    ELSE DedupLoop_last_wins(records_, i + 1, seen,
            [k \in 1..Len(unique_) |->
                IF KeyOf(unique_[k]) = KeyOf(records_[i])
                THEN records_[i] ELSE unique_[k]])

Deduplicate_last_wins(records_) == DedupLoop_last_wins(records_, 1, {}, <<>>)

\* the loop comparing each record with the previous record only
RECURSIVE DedupLoop_adjacent(_, _, _, _)
DedupLoop_adjacent(records_, i, seen, unique_) ==
    IF i > Len(records_) THEN unique_
    ELSE IF KeyOf(records_[i]) \notin seen
    THEN DedupLoop_adjacent(records_, i + 1, {KeyOf(records_[i])},
                            Append(unique_, records_[i]))
    ELSE DedupLoop_adjacent(records_, i + 1, seen, unique_)

Deduplicate_adjacent(records_) == DedupLoop_adjacent(records_, 1, {}, <<>>)

Deduplicate(records_) == DedupLoop(records_, 1, {}, <<>>)

(***************************************************************************)
(* write_munis_csv.  A row is the list handed to csv.writer.writerow; the  *)
(* quoting csv applies to a field is not modelled.                         *)
(***************************************************************************)
TitleRow ==
    << <<"R", "o", "w", " ", "T", "y", "p", "e">>,
       <<"V", "e", "n", "d", "o", "r", " ", "N", "u", "m", "b", "e", "r">>,
       <<"R", "e", "m", "i", "t", " ", "N", "u", "m", "b", "e", "r">>,
       <<"I", "n", "v", "o", "i", "c", "e", " ", "N", "u", "m", "b", "e", "r">>,
       <<"I", "n", "v", "o", "i", "c", "e", " ", "D", "a", "t", "e">>,
       <<"I", "n", "v", "o", "i", "c", "e", " ", "D", "u", "e", " ", "D", "a", "t", "e">>,
       <<"I", "n", "v", "o", "i", "c", "e", " ", "T", "o", "t", "a", "l">>,
       <<"I", "n", "v", "o", "i", "c", "e", " ", "N", "e", "t", " ", "A", "m", "o", "u", "n", "t">>,
       <<"P", "O", " ", "F", "i", "s", "c", "a", "l", " ", "Y", "e", "a", "r">>,
       <<"P", "O", " ", "N", "u", "m", "b", "e", "r">>,
       <<"I", "n", "c", "l", "u", "d", "e", " ", "D", "o", "c", "u", "m", "e", "n", "t", "a", "t", "i", "o", "n">>,
       <<"S", "e", "p", "a", "r", "a", "t", "e", " ", "C", "h", "e", "c", "k">>,
       <<"C", "o", "n", "t", "r", "a", "c", "t", " ", "N", "u", "m", "b", "e", "r">>,
       <<"I", "n", "v", "o", "i", "c", "e", " ", "D", "e", "s", "c", "r", "i", "p", "t", "i", "o", "n">> >>

HeaderRow(rec, args_) ==
    << <<"1">>, rec.vendor_number, args_.remit_number, rec.invoice_number,
       args_.invoice_date, args_.invoice_due_date,
       rec.invoice_total, rec.invoice_net_amount,
       args_.po_fiscal_year, args_.po_number,
       args_.include_documentation, args_.separate_check,
       args_.contract_number, args_.invoice_description >>

\* the detail row carrying the net amount where the total belongs
DetailRow_net(rec, args_) ==
    << <<"2">>, rec.vendor_number, args_.sequence_start, rec.invoice_number,
       args_.default_org, args_.default_object, args_.project,
       rec.invoice_net_amount, args_.po_line_number,
       <<>>, <<>>, <<>>, <<>>, args_.detail_description >>

DetailRow(rec, args_) ==
    << <<"2">>, rec.vendor_number, args_.sequence_start, rec.invoice_number,
       args_.default_org, args_.default_object, args_.project,
       rec.invoice_total, args_.po_line_number,
       <<>>, <<>>, <<>>, <<>>, args_.detail_description >>

RECURSIVE RecordRows(_, _)
RecordRows(records_, args_) ==
    IF records_ = <<>> THEN <<>>
    ELSE <<HeaderRow(Head(records_), args_), DetailRow(Head(records_), args_)>>
            \o RecordRows(Tail(records_), args_)

\* the rows of the file once write_munis_csv returns
write_munis_csv(records_, args_) == <<TitleRow>> \o RecordRows(records_, args_)

(***************************************************************************)
(* Inputs of a run of main                                                 *)
(***************************************************************************)
\* the command line: every option given, each with a value of its own
CustomArgs ==
    [remit_number          |-> <<"0">>,
     invoice_date          |-> <<"d", "1">>,
     invoice_due_date      |-> <<"d", "2">>,
     po_fiscal_year        |-> <<"f", "y">>,
     po_number             |-> <<"p", "o">>,
     include_documentation |-> <<"Y">>,
     separate_check        |-> <<"N">>,
     contract_number       |-> <<"c", "n">>,
     invoice_description   |-> <<"i", "d">>,
     sequence_start        |-> <<"1">>,
     default_org           |-> <<"o", "r", "g">>,
     default_object        |-> <<"o", "b", "j">>,
     project               |-> <<"p", "j">>,
     po_line_number        |-> <<"l", "n">>,
     detail_description    |-> <<"d", "d">>]

\* the command line without options: the defaults of lines 196-212, the dates
\* of lines 23-26 standing as d0..d3
DefaultArgs ==
    [remit_number          |-> <<"0">>,
     invoice_date          |-> <<"d", "0">>,
     invoice_due_date      |-> <<"d", "1">>,
     po_fiscal_year        |-> <<>>,
     po_number             |-> <<>>,
     include_documentation |-> <<>>,
     separate_check        |-> <<>>,
     contract_number       |-> <<>>,
     invoice_description   |-> <<>>,
     sequence_start        |-> <<"1">>,
     default_org           |-> <<"d", "2">>,
     default_object        |-> <<"d", "3">>,
     project               |-> <<>>,
     po_line_number        |-> <<>>,
     detail_description    |-> <<>>]

ArgSets == {CustomArgs, DefaultArgs}

\* what os.walk finds in the folder
FolderPaths ==
    { <<"a", ".", "e", "m", "l">>,
      <<"B", "/", "c", ".", "E", "M", "L">>,
      <<"d", "/", "n", "o", "t", "e", ".", "p", "d", "f">> }

Doc(text_, donut_json_, pdf_) ==
    [text |-> text_, donut_json |-> donut_json_, pdf |-> pdf_]

\* the parts msg.walk() yields; a payload is <<>> (none) or <<document>>
Part_body ==
    [content_type |-> <<"t", "e", "x", "t", "/", "p", "l", "a", "i", "n">>,
     filename     |-> <<>>,
     payload      |-> <<Doc(<<"h", "i">>, EmptyDict, NoPdf)>>]

Part_empty ==
    [content_type |-> S_application_pdf,
     filename     |-> <<"e", ".", "p", "d", "f">>,
     payload      |-> <<>>]

\* an attachment without any signal
Part_blank ==
    [content_type |-> S_application_pdf,
     filename     |-> <<"x", ".", "p", "d", "f">>,
     payload      |-> <<Doc(<<>>, EmptyDict, NoPdf)>>]

\* an attachment with an amount and no vendor or invoice signal, recognised
\* as a PDF by its file name only
Part_scan ==
    [content_type |-> <<"a", "p", "p", "l", "i", "c", "a", "t", "i", "o", "n", "/", "o", "c", "t", "e", "t", "-", "s", "t", "r", "e", "a", "m">>,
     filename     |-> <<"y", ".", "P", "D", "F">>,
     payload      |-> <<Doc(<<"$", "7", ".", "2", "5">>, EmptyDict, NoPdf)>>]

\* an attachment with structured fields
Part_struct ==
    [content_type |-> S_application_pdf,
     filename     |-> <<"z", ".", "p", "d", "f">>,
     payload      |->
        <<Doc(<<"#", "1", "2", "3", "4", "5", "6", "7", "8">>,
              ("vendor_number" :> <<"a">>) @@ ("invoice_id" :> <<"a">>)
                 @@ ("invoice_total" :> Val_word),
              OneTablePdf)>>]

PartKinds ==
    {Part_body, Part_empty, Part_blank, Part_scan, Part_struct}

MaxParts == 2

Messages == UNION {[1..n -> PartKinds] : n \in 0..MaxParts}

\* lines 195-224 with the folder present: the command line is parsed and the
\* folder walked for *.eml files
Start ==
    /\ pc = "start"
    /\ \E a \in ArgSets, files \in SUBSET FolderPaths :
          /\ args' = a
          /\ eml_files' = SortPaths({f \in files : IsEmlName(basename(f))})
    /\ pc' = "scan"
    /\ UNCHANGED <<next_eml, msgs, records, unique, out_file, exit_msg,
                   docVars, details, result>>

\* lines 215-216
FolderMissing ==
    /\ pc = "start"
    /\ exit_msg' = Msg_no_folder
    /\ pc' = "exit"
    /\ UNCHANGED <<eml_files, next_eml, msgs, records, unique, out_file, args,
                   docVars, details, result>>

\* lines 234-237: one iteration, the message read from the file being msg
ScanEml ==
    /\ pc = "scan"
    /\ next_eml <= Len(eml_files)
    /\ \E msg \in Messages :
          /\ records' =
                records \o extract_records_from_eml(eml_files[next_eml], msg)
          /\ msgs' = Append(msgs, msg)
    /\ next_eml' = next_eml + 1
    /\ UNCHANGED <<pc, eml_files, unique, out_file, exit_msg, args,
                   docVars, details, result>>

\* line 145 raising on an unreadable file: the run ends with the error
ScanFails ==
    /\ pc = "scan"
    /\ next_eml <= Len(eml_files)
    /\ exit_msg' = Msg_os_error
    /\ pc' = "exit"
    /\ UNCHANGED <<eml_files, next_eml, msgs, records, unique, out_file, args,
                   docVars, details, result>>

\* lines 239-240
NoInput ==
    /\ pc = "scan"
    /\ next_eml > Len(eml_files)
    /\ NoRecords(records)
    /\ exit_msg' = Msg_no_pdf
    /\ pc' = "exit"
    /\ UNCHANGED <<eml_files, next_eml, msgs, records, unique, out_file, args,
                   docVars, details, result>>

\* line 239 with records to go on with
HaveRecords ==
    /\ pc = "scan"
    /\ next_eml > Len(eml_files)
    /\ ~NoRecords(records)
    /\ pc' = "dedup"
    /\ UNCHANGED <<eml_files, next_eml, msgs, records, unique, out_file,
                   exit_msg, args, docVars, details, result>>

\* lines 242-247
Dedup ==
    /\ pc = "dedup"
    /\ unique' = Deduplicate(records)
    /\ pc' = "write"
    /\ UNCHANGED <<eml_files, next_eml, msgs, records, out_file, exit_msg,
                   args, docVars, details, result>>

\* lines 249-251
Write ==
    /\ pc = "write"
    /\ out_file' = write_munis_csv(unique, args)
    /\ pc' = "done"
    /\ UNCHANGED <<eml_files, next_eml, msgs, records, unique, exit_msg, args,
                   docVars, details, result>>

\* line 170 raising on an unwritable target: the run ends with the error
WriteFails ==
    /\ pc = "write"
    /\ exit_msg' = Msg_os_error
    /\ pc' = "exit"
    /\ UNCHANGED <<eml_files, next_eml, msgs, records, unique, out_file, args,
                   docVars, details, result>>

(***************************************************************************)
(* Spec: a run of main                                                     *)
(***************************************************************************)
Init ==
    /\ pc = "start"
    /\ eml_files = <<>>
    /\ next_eml = 1
    /\ msgs = <<>>
    /\ records = <<>>
    /\ unique = <<>>
    /\ out_file = <<>>
    /\ exit_msg = <<>>
    /\ args = DefaultArgs
    /\ text = <<>>
    /\ source_file = <<>>
    /\ donut_json = EmptyDict
    /\ pdf = NoPdf
    /\ details = EmptyDict
    /\ result = <<>>

Next ==
    \/ Start
    \/ FolderMissing
    \/ ScanEml
    \/ ScanFails
    \/ NoInput
    \/ HaveRecords
    \/ Dedup
    \/ Write
    \/ WriteFails

Spec == Init /\ [][Next]_vars

(***************************************************************************)
(* SpecDedup: the deduplicator on any sequence of records                  *)
(***************************************************************************)
MaxRecords == 3

DedupRecords ==
    { [vendor_number      |-> v,
       invoice_number     |-> i,
       invoice_total      |-> t,
       invoice_net_amount |-> <<>>] :
        v \in {<<"a">>, <<"b">>},
        i \in {<<"a">>, <<"b">>},
        t \in {<<>>, <<"1", ".", "0", "0">>} }

InitDedup ==
    /\ pc = "dedup"
    /\ records \in UNION {[1..n -> DedupRecords] : n \in 0..MaxRecords}
    /\ eml_files = <<>>
    /\ next_eml = 1
    /\ msgs = <<>>
    /\ unique = <<>>
    /\ out_file = <<>>
    /\ exit_msg = <<>>
    /\ args = EmptyDict
    /\ text = <<>>
    /\ source_file = <<>>
    /\ donut_json = EmptyDict
    /\ pdf = NoPdf
    /\ details = EmptyDict
    /\ result = <<>>

NextDedup == Dedup

SpecDedup == InitDedup /\ [][NextDedup]_vars

(***************************************************************************)
(* Claims about the vendor number resolver                                 *)
(***************************************************************************)
Chars ==
    Digits \cup Upper \cup Lower \cup Whitespace
        \cup {"_", "#", ":", ".", ",", "/", "-", "$"}

IsString(v) == DOMAIN v = 1..Len(v) /\ \A i \in 1..Len(v) : v[i] \in Chars

\* C2: on every input (a mapping of strings, any text, the path of any
\* enumerated .eml file) extract_vendor_number returns a string, and the
\* string is not empty.
C2_VendorNonEmpty ==
    pc = "resolved" => IsString(result) /\ result # <<>>

\* the hardest case: no signal at all and a file named ".eml"
C2_Witness ==
    /\ pc = "resolved"
    /\ text = <<>>
    /\ ~Truthy(Get(donut_json, "vendor_number"))
    /\ source_file = <<".", "e", "m", "l">>
    /\ result = <<".", "e", "m", "l">>

\* the substring of t starting at i is a label-anchored match whose digits
\* start at c and number n
IsLabelMatch(t, i, c, n) ==
    \E L \in {S_vendor, S_acct, S_acct \o S_ount} :
       /\ LitAt(t, i, L, TRUE)
       /\ \E a \in (i + Len(L))..c :
             /\ \A k \in (i + Len(L))..(a - 1) : t[k] \in Whitespace
             /\ \E M \in {<<"#">>, S_number} :
                   /\ LitAt(t, a, M, TRUE)
                   /\ a + Len(M) <= c
                   /\ \A k \in (a + Len(M))..(c - 1) :
                         t[k] \in {":"} \cup Whitespace
       /\ c + n - 1 <= Len(t)
       /\ \A k \in c..(c + n - 1) : t[k] \in Digits

LabelStarts(t) ==
    {i \in 1..Len(t) :
        /\ LitAt(t, i, S_vendor, TRUE) \/ LitAt(t, i, S_acct, TRUE)
        /\ \E c \in i..Len(t) : \E n \in 6..8 : IsLabelMatch(t, i, c, n)}

\* the digits of the first label-anchored match: leftmost start, then as many
\* digits as the pattern allows
FirstLabelDigits(t) ==
    LET i == CHOOSE x \in LabelStarts(t) : \A y \in LabelStarts(t) : x <= y
        c == CHOOSE x \in i..Len(t) : \E n \in 6..8 : IsLabelMatch(t, i, x, n)
        n == CHOOSE x \in 6..8 :
                /\ IsLabelMatch(t, i, c, x)
                /\ \A y \in 6..8 : IsLabelMatch(t, i, c, y) => y <= x
    IN  Slice(t, c, c + n - 1)

\* 8 digits at i with no word character on either side
StandaloneEightAt(t, i) ==
    /\ i + 7 <= Len(t)
    /\ \A k \in i..(i + 7) : t[k] \in Digits
    /\ i > 1 => ~IsWord(t[i - 1])
    /\ i + 8 <= Len(t) => ~IsWord(t[i + 8])

EightStarts(t) == {i \in 1..Len(t) : StandaloneEightAt(t, i)}

FirstEight(t) ==
    LET i == CHOOSE x \in EightStarts(t) : \A y \in EightStarts(t) : x <= y
    IN  Slice(t, i, i + 7)

\* r is d left-padded with "0" to 8 characters
IsZeroPadded8(r, d) ==
    /\ Len(r) = 8
    /\ Slice(r, 8 - Len(d) + 1, 8) = d
    /\ \A k \in 1..(8 - Len(d)) : r[k] = "0"

\* the name of the file without directory and without ".eml" extension
IsBaseName(r, path) ==
    LET b == basename(path)
    IN  IF \E k \in 1..(Len(b) - 4) : b[k] # "."
        THEN r = Slice(b, 1, Len(b) - 4)
        ELSE r = b

\* C3: the result is that of the first step of the chain that succeeds:
\* structured vendor_number verbatim, else the first label-anchored 6-8 digit
\* match zero-padded to 8, else the first standalone 8-digit token, else the
\* file base name.
C3_VendorChain ==
    pc = "resolved" =>
        LET v == IF "vendor_number" \in DOMAIN donut_json
                 THEN donut_json["vendor_number"] ELSE <<>>
        IN  IF v # <<>> THEN result = v
            ELSE IF LabelStarts(text) # {}
            THEN IsZeroPadded8(result, FirstLabelDigits(text))
            ELSE IF EightStarts(text) # {} THEN result = FirstEight(text)
            ELSE IsBaseName(result, source_file)

\* a labelled 6-digit number wins over an earlier standalone 8-digit token
C3_Witness ==
    /\ pc = "resolved"
    /\ "vendor_number" \in DOMAIN donut_json
    /\ donut_json["vendor_number"] = <<>>
    /\ LabelStarts(text) # {}
    /\ EightStarts(text) # {}
    /\ Len(FirstLabelDigits(text)) = 6
    /\ result = <<"0", "0">> \o FirstLabelDigits(text)
    /\ result # FirstEight(text)

(***************************************************************************)
(* Claims about the financial details resolver                             *)
(***************************************************************************)
\* digits, ".", exactly two digits
IsTwoDecimal(r) ==
    /\ Len(r) >= 4
    /\ r[Len(r) - 2] = "."
    /\ \A k \in 1..Len(r) : k # Len(r) - 2 => r[k] \in Digits

\* r is two-decimal text of n hundredths
IsAmountText(r, n) ==
    /\ IsTwoDecimal(r)
    /\ 100 * DigitsValue(SubSeq(r, 1, Len(r) - 3))
         + DigitsValue(SubSeq(r, Len(r) - 1, Len(r))) = n

IsMaximum(nums, v) ==
    /\ \E i \in 1..Len(nums) : nums[i] = v
    /\ \A i \in 1..Len(nums) : nums[i] <= v

\* v is second when the candidates are ranked by value, each position counting
IsSecondLargest(nums, v) ==
    /\ \E i \in 1..Len(nums) : nums[i] = v
    /\ Cardinality({i \in 1..Len(nums) : nums[i] > v}) <= 1
    /\ Cardinality({i \in 1..Len(nums) : nums[i] >= v}) >= 2

StructuredValue(key) ==
    IF key \in DOMAIN donut_json THEN donut_json[key] ELSE <<>>

\* what the claim says of invoiceTotal in d, a mapping in which an unresolved
\* sub-field is absent
TotalResolved(d, nums) ==
    IF StructuredValue("invoice_total") # <<>>
    THEN /\ "invoice_total" \in DOMAIN d
         /\ d["invoice_total"] = StructuredValue("invoice_total")
    ELSE IF Len(nums) >= 1
    THEN /\ "invoice_total" \in DOMAIN d
         /\ \E i \in 1..Len(nums) :
               /\ IsMaximum(nums, nums[i])
               /\ IsAmountText(d["invoice_total"], nums[i])
    ELSE "invoice_total" \notin DOMAIN d

\* what the claim says of invoiceNetAmount in d
NetResolved(d, nums) ==
    IF StructuredValue("invoice_net_amount") # <<>>
    THEN /\ "invoice_net_amount" \in DOMAIN d
         /\ d["invoice_net_amount"] = StructuredValue("invoice_net_amount")
    ELSE IF Len(nums) >= 2
    THEN /\ "invoice_net_amount" \in DOMAIN d
         /\ \E i \in 1..Len(nums) :
               /\ IsSecondLargest(nums, nums[i])
               /\ IsAmountText(d["invoice_net_amount"], nums[i])
    ELSE IF Len(nums) = 1
    THEN /\ "invoice_net_amount" \in DOMAIN d
         /\ IsAmountText(d["invoice_net_amount"], nums[1])
         /\ StructuredValue("invoice_total") = <<>> =>
               d["invoice_net_amount"] = d["invoice_total"]
    ELSE "invoice_net_amount" \notin DOMAIN d

NoTableSignal == ~pdf.opens \/ \A i \in 1..Len(pdf.pages) : pdf.pages[i] = <<>>

AsDict(rec) ==
    [k \in {f \in {"invoice_total", "invoice_net_amount"} : rec[f] # <<>>}
        |-> rec[k]]

T_500_450 ==
    <<"$", "5", "0", "0", ".", "0", "0", " ", "$", "4", "5", "0", ".", "0", "0">>

T_1234 == <<"U", "S", "D", " ", "1", ",", "2", "3", "4", ".", "5", "6">>

\* C4: per sub-field, a structured value wins; else the total is the maximum
\* text amount and the net amount the second-largest by position (the sole one
\* when there is one); with neither the sub-field is unresolved after the
\* text step and is the empty string in the record.  (The record's total is
\* stated for documents without tables: the table fallback is the one later
\* step that can still resolve it.)
C4_FinancialChain ==
    /\ pc = "text_done" =>
          /\ TotalResolved(details, Nums(text))
          /\ NetResolved(details, Nums(text))
    /\ pc = "resolved" =>
          /\ NetResolved(AsDict(result), Nums(text))
          /\ (NoTableSignal \/ StructuredValue("invoice_total") # <<>>
                \/ Nums(text) # <<>>) =>
                TotalResolved(AsDict(result), Nums(text))
          /\ (donut_json = EmptyDict /\ text = T_500_450) =>
                /\ result.invoice_total = <<"5", "0", "0", ".", "0", "0">>
                /\ result.invoice_net_amount = <<"4", "5", "0", ".", "0", "0">>
          /\ (donut_json = EmptyDict /\ text = T_1234) =>
                /\ result.invoice_total =
                      <<"1", "2", "3", "4", ".", "5", "6">>
                /\ result.invoice_net_amount = result.invoice_total

\* three candidates, the largest twice: the net amount is the largest again
C4_Witness ==
    /\ pc = "resolved"
    /\ donut_json = EmptyDict
    /\ Len(Nums(text)) = 3
    /\ Cardinality({i \in 1..3 : Nums(text)[i] = 50000}) = 2
    /\ \E i \in 1..3 : Nums(text)[i] = 45000
    /\ result.invoice_total = <<"5", "0", "0", ".", "0", "0">>
    /\ result.invoice_net_amount = <<"5", "0", "0", ".", "0", "0">>

\* C5: in every assembled record invoiceTotal and invoiceNetAmount are each
\* the empty string or decimal text with exactly two fractional digits (a
\* malformed structured field or table cell is skipped, never copied).
C5_TwoDecimalOrEmpty ==
    pc = "resolved" =>
        /\ result.invoice_total = <<>> \/ IsTwoDecimal(result.invoice_total)
        /\ result.invoice_net_amount = <<>>
              \/ IsTwoDecimal(result.invoice_net_amount)

\* the cell begins with digits and commas, ".", two digits
BeginsWithDecimal(cell) ==
    \E b \in 2..(Len(cell) - 2) :
       /\ \A k \in 1..(b - 1) : cell[k] \in Digits \cup {","}
       /\ cell[b] = "."
       /\ cell[b + 1] \in Digits
       /\ cell[b + 2] \in Digits

WithoutCommas(cell) == SelectSeq(cell, LAMBDA c : c # ",")

HasCells(table) == table # <<>> /\ table[Len(table)] # <<>>

BottomRight(table) == table[Len(table)][Len(table[Len(table)])]

\* page i has a table, and the bottom-right cell of its first table is accepted
PageAccepted(pages, i) ==
    /\ pages[i] # <<>>
    /\ HasCells(pages[i][1])
    /\ BeginsWithDecimal(BottomRight(pages[i][1]))

\* page i does not end the scan with an error
PagePassable(pages, i) == pages[i] = <<>> \/ HasCells(pages[i][1])

TablePages(pages) == {i \in 1..Len(pages) : pages[i] # <<>>}

\* the table step leaves everything but an unresolved invoice_total alone
TableStepFrame ==
    /\ "invoice_total" \in DOMAIN details => details' = details
    /\ DOMAIN details' \subseteq DOMAIN details \cup {"invoice_total"}
    /\ \A k \in DOMAIN details : k \in DOMAIN details' /\ details'[k] = details[k]
    /\ result'.invoice_net_amount = Get(details, "invoice_net_amount")
    /\ result'.invoice_total = Get(details', "invoice_total")

\* C9 as claimed: only the bottom-right cell of the first table found in the
\* document is considered; if it is rejected invoiceTotal stays unresolved.
C9_FirstTableOnly ==
    [][pc = "text_done" =>
        /\ TableStepFrame
        /\ "invoice_total" \notin DOMAIN details =>
              LET tp == TablePages(pdf.pages)
                  f  == CHOOSE i \in tp : \A j \in tp : i <= j
              IN  IF pdf.opens /\ tp # {} /\ PageAccepted(pdf.pages, f)
                  THEN result'.invoice_total =
                          WithoutCommas(BottomRight(pdf.pages[f][1]))
                  ELSE result'.invoice_total = <<>>]_vars

\* C9 amended: the fallback runs only for an invoice_total still unresolved
\* and never touches invoice_net_amount; pages are scanned in order, on each
\* page only the bottom-right cell of its first table is considered, and the
\* first accepted one is taken with its commas stripped; a rejected cell
\* sends the scan on to the next page; a table without cells ends the scan;
\* with no accepted cell invoiceTotal stays unresolved.
C9_TableFallback ==
    [][pc = "text_done" =>
        /\ TableStepFrame
        /\ "invoice_total" \notin DOMAIN details =>
              LET ok == {i \in 1..Len(pdf.pages) :
                            /\ PageAccepted(pdf.pages, i)
                            /\ \A j \in 1..(i - 1) :
                                  PagePassable(pdf.pages, j)
                                  /\ ~PageAccepted(pdf.pages, j)}
              IN  IF pdf.opens /\ ok # {}
                  THEN \E i \in ok :
                          result'.invoice_total =
                             WithoutCommas(BottomRight(pdf.pages[i][1]))
                  ELSE result'.invoice_total = <<>>]_vars

\* the first table found is rejected and a later page supplies the total
C9_Witness ==
    /\ pc = "resolved"
    /\ StructuredValue("invoice_total") = <<>>
    /\ Nums(text) = <<>>
    /\ pdf.opens
    /\ Len(pdf.pages) = 2
    /\ pdf.pages[1] = <<TableEndingIn(Cell_word)>>
    /\ pdf.pages[2] = <<TableEndingIn(Cell_good)>>
    /\ result.invoice_total = <<"1", "0", "0", "0", ".", "0", "0">>
    /\ result.invoice_net_amount = <<>>

(***************************************************************************)
(* Claims about the deduplicator                                           *)
(***************************************************************************)
SameKey(r1, r2) ==
    r1.vendor_number = r2.vendor_number /\ r1.invoice_number = r2.invoice_number

\* record i is the first of the input with its key
IsFirstOccurrence(recs, i) == \A j \in 1..(i - 1) : ~SameKey(recs[j], recs[i])

\* the subsequence of the first occurrences from record i on
RECURSIVE FirstOccurrencesFrom(_, _)
FirstOccurrencesFrom(recs, i) ==
    IF i > Len(recs) THEN <<>>
    ELSE (IF IsFirstOccurrence(recs, i) THEN <<recs[i]>> ELSE <<>>)
            \o FirstOccurrencesFrom(recs, i + 1)

\* C1: the output is exactly the subsequence of the input made of the records
\* that are the first of their (vendorNumber, invoiceNumber) key, in input
\* order, each unchanged.
C1_FirstOccurrenceWins ==
    pc = "write" => unique = FirstOccurrencesFrom(records, 1)

\* a later record with the key of the first and another total is dropped
C1_Witness ==
    /\ pc = "write"
    /\ Len(records) = 3
    /\ SameKey(records[1], records[3])
    /\ ~SameKey(records[1], records[2])
    /\ records[1].invoice_total = <<>>
    /\ records[3].invoice_total # <<>>
    /\ unique = <<records[1], records[2]>>

\* C8: the deduplicator applied to its own output returns that output, and no
\* two records of the output share a key.
C8_Idempotent ==
    pc = "write" =>
        /\ Deduplicate(unique) = unique
        /\ \A i, j \in 1..Len(unique) :
              SameKey(unique[i], unique[j]) => i = j

\* an input with a key three times, not all adjacent, collapses and stays
C8_Witness ==
    /\ pc = "write"
    /\ Len(records) = 3
    /\ SameKey(records[1], records[3])
    /\ ~SameKey(records[1], records[2])
    /\ Len(unique) = 2
    /\ Deduplicate(unique) = unique

(***************************************************************************)
(* Claims about a run of main                                              *)
(***************************************************************************)
\* the part passes the filters of lines 151 and 154
IsAttachment(part) ==
    /\ part.payload # <<>>
    /\ \/ part.content_type = S_application_pdf
       \/ \E n \in 0..Len(part.filename) :
             /\ Len(part.filename) = n + 4
             /\ part.filename[n + 1] = "."
             /\ part.filename[n + 2] \in {"p", "P"}
             /\ part.filename[n + 3] \in {"d", "D"}
             /\ part.filename[n + 4] \in {"f", "F"}

\* the attachments of the messages scanned so far, in scan order, each with
\* the number of its message
RECURSIVE AttachmentsFrom(_, _)
AttachmentsFrom(m, p) ==
    IF m > Len(msgs) THEN <<>>
    ELSE IF p > Len(msgs[m]) THEN AttachmentsFrom(m + 1, 1)
    ELSE (IF IsAttachment(msgs[m][p])
          THEN <<[eml |-> m, doc |-> msgs[m][p].payload[1]]>>
          ELSE <<>>) \o AttachmentsFrom(m, p + 1)

Attachments == AttachmentsFrom(1, 1)

ScanOver == pc # "start" /\ next_eml > Len(eml_files)

\* C6: a run that has scanned every message and holds no candidate record
\* ends there with the no-input message: the deduplicator and the serializer
\* do not run and the output target is never opened.  The records are none
\* exactly when no scanned message carries a PDF attachment.
C6_NoInput ==
    [][/\ (pc = "scan" /\ ScanOver /\ records = <<>>) =>
             /\ pc' = "exit"
             /\ exit_msg' = Msg_no_pdf
             /\ unique' = <<>>
             /\ out_file' = <<>>
       /\ (pc = "exit") => UNCHANGED vars
       /\ (records' = <<>>) <=> (AttachmentsFrom(1, 1)' = <<>>)
       /\ (records' = <<>>) =>
             /\ pc' \in {"start", "scan", "exit"}
             /\ unique' = <<>>
             /\ out_file' = <<>>]_vars

\* two messages were scanned, neither with a PDF attachment, and the run ended
C6_Witness ==
    /\ pc = "exit"
    /\ exit_msg = Msg_no_pdf
    /\ Len(eml_files) = 2
    /\ Len(msgs) = 2
    /\ Len(msgs[1]) = 2
    /\ msgs[1][1] = Part_body
    /\ msgs[1][2] = Part_empty
    /\ out_file = <<>>
    /\ unique = <<>>

\* C7: the file holds the title row and then, for each retained record in order
\* a type "1" row immediately followed by a type "2" row, both of 14 columns
\* with the record's vendor number in column 2 and invoice number in column
\* 4; the type "1" row has the total in column 7 and the net amount in column
\* 8, the type "2" row the total in column 8 and empty strings in columns
\* 10-13; every other column is a configuration value.
C7_TwoRowsPerRecord ==
    pc = "done" =>
        /\ Len(out_file) = 1 + 2 * Len(unique)
        /\ out_file[1] = TitleRow
        /\ \A i \in 1..Len(unique) :
              LET rec == unique[i]
                  h   == out_file[2 * i]
                  d   == out_file[2 * i + 1]
              IN  /\ Len(h) = 14 /\ Len(d) = 14
                  /\ h[1] = <<"1">> /\ d[1] = <<"2">>
                  /\ h[2] = rec.vendor_number /\ d[2] = rec.vendor_number
                  /\ h[4] = rec.invoice_number /\ d[4] = rec.invoice_number
                  /\ h[7] = rec.invoice_total
                  /\ h[8] = rec.invoice_net_amount
                  /\ d[8] = rec.invoice_total
                  /\ \A k \in 10..13 : d[k] = <<>>
                  /\ h[3] = args.remit_number
                  /\ h[5] = args.invoice_date
                  /\ h[6] = args.invoice_due_date
                  /\ h[9] = args.po_fiscal_year
                  /\ h[10] = args.po_number
                  /\ h[11] = args.include_documentation
                  /\ h[12] = args.separate_check
                  /\ h[13] = args.contract_number
                  /\ h[14] = args.invoice_description
                  /\ d[3] = args.sequence_start
                  /\ d[5] = args.default_org
                  /\ d[6] = args.default_object
                  /\ d[7] = args.project
                  /\ d[9] = args.po_line_number
                  /\ d[14] = args.detail_description

\* two retained records whose totals and net amounts differ were written
C7_Witness ==
    /\ pc = "done"
    /\ args = CustomArgs
    /\ Len(unique) = 2
    /\ Len(out_file) = 5
    /\ unique[1].invoice_total # unique[1].invoice_net_amount
    /\ unique[1].invoice_total # unique[2].invoice_total
    /\ out_file[4][1] = <<"1">>
    /\ out_file[5][8] = unique[2].invoice_total

\* neither resolver finds a structured or text signal in the document
NoKeySignal(doc) ==
    /\ ~Truthy(Get(doc.donut_json, "vendor_number"))
    /\ LabelStarts(doc.text) = {}
    /\ EightStarts(doc.text) = {}
    /\ \A k \in {"invoice_number", "invoice_id", "invoice_no"} :
          ~Truthy(Get(doc.donut_json, k))
    /\ ~InvoiceLabelSearch(doc.text, 1).ok
    /\ ~DatedTokenSearch(doc.text, 1).ok
    /\ ~PatternTokenSearch(doc.text, 1).ok

\* C10: a record whose vendor and invoice number both come from the terminal
\* fallback carries the base name of the e-mail file in both; two such
\* attachments of one e-mail share their key, and the output holds exactly
\* one record with that key, the first of the input with it, which is none of
\* the two unless it is the earlier one.
C10_FallbackKeyCollapses ==
    pc \in {"write", "done"} =>
        LET att == Attachments
        IN  /\ Len(att) = Len(records)
            /\ \A i \in 1..Len(att) :
                  NoKeySignal(att[i].doc) =>
                     /\ IsBaseName(records[i].vendor_number,
                                   eml_files[att[i].eml])
                     /\ records[i].invoice_number = records[i].vendor_number
            /\ \A i, j \in 1..Len(att) :
                  (/\ i < j
                   /\ att[i].eml = att[j].eml
                   /\ NoKeySignal(att[i].doc)
                   /\ NoKeySignal(att[j].doc)) =>
                     /\ SameKey(records[i], records[j])
                     /\ \E k \in 1..Len(unique) :
                           /\ SameKey(unique[k], records[i])
                           /\ \A l \in 1..Len(unique) :
                                 SameKey(unique[l], records[i]) => l = k
                           /\ \E f \in 1..i :
                                 /\ unique[k] = records[f]
                                 /\ \A e \in 1..(f - 1) :
                                       ~SameKey(records[e], records[f])

\* two attachments of one e-mail without signals and with different totals:
\* one record is written, the first
C10_Witness ==
    /\ pc = "done"
    /\ Len(msgs) = 1
    /\ msgs[1] = <<Part_blank, Part_scan>>
    /\ records[1].invoice_total # records[2].invoice_total
    /\ SameKey(records[1], records[2])
    /\ unique = <<records[1]>>
    /\ Len(out_file) = 3

====
